---- MODULE Spec2Model ----
(***************************************************************************)
(* A model of the transaction pipeline of the wallet:                      *)
(*   - verifyTxRequest        (Request Verifier)                           *)
(*   - generateTransaction    (Transaction Builder)                        *)
(*   - useHandleSubmitTransaction (Submission Orchestrator)                *)
(*   - finishTransaction      (Broadcaster)                                *)
(*   - getPostConditions      (Payload Normalizer)                         *)
(* Each component has its own specification (SpecVerify, SpecBuild,        *)
(* SpecSubmit, SpecBroadcast, SpecNormalize); the variables of the other   *)
(* components stay at their initial value. SpecPipeline runs the Builder   *)
(* on a payload the Verifier accepted, SpecAttempts runs the Broadcaster   *)
(* beside the submit callback.                                             *)
(***************************************************************************)
EXTENDS Integers, Sequences, FiniteSets, TLC

VARIABLES
    \* ---- verifyTxRequest
    requestToken,   \* the signed JWT: [payload, signedWith]
    wallet,         \* wallet.accounts, a sequence of accounts
    appDomain,      \* the requesting application's domain
    vpc,            \* position inside verifyTxRequest
    txVersion,      \* const txVersion (line 229)
    scanIdx,        \* index wallet.accounts.find is looking at
    vlog,           \* the library calls made so far, in order
    vresult,        \* what verifyTxRequest returned or threw
    \* ---- generateTransaction
    txData,         \* the payload handed to generateTransaction (mutated)
    txDataIn,       \* the payload as it was when the call started
    nonce,          \* the optional explicit nonce
    gpc,            \* position inside generateTransaction
    glog,           \* construction paths invoked so far, in order
    tx,             \* let tx (line 125)
    gresult,        \* what generateTransaction returned or threw
    \* ---- useHandleSubmitTransaction
    transaction,    \* per invocation: the hook's transaction (or null)
    spc,            \* per invocation: position inside the callback
    slog,           \* per invocation: calls made by the callback, in order
    isLoading,      \* the loading flag of loadingKey
    screen,         \* the current screen
    latestNonce,    \* the account's tracked nonce
    \* ---- finishTransaction
    btx,            \* the transaction handed to finishTransaction
    response,       \* what the node answers to the submission
    bpc,            \* position inside finishTransaction
    serialized,     \* const serialized (line 160)
    serializeCalls, \* number of calls of tx.serialize()
    sent,           \* the bodies handed to rpcClient.broadcastTX, in order
    errorLog,       \* the arguments of console.error, in order
    bresult,        \* what finishTransaction returned or threw
    \* ---- getPostConditions
    postConditions, \* the argument of getPostConditions
    npc,            \* position inside getPostConditions
    mapped          \* the entries the map callback has returned so far

vvars == <<requestToken, wallet, appDomain, vpc, txVersion, scanIdx, vlog, vresult>>
gvars == <<txData, txDataIn, nonce, gpc, glog, tx, gresult>>
svars == <<transaction, spc, slog, isLoading, screen, latestNonce>>
bvars == <<btx, response, bpc, serialized, serializeCalls, sent, errorLog, bresult>>
nvars == <<postConditions, npc, mapped>>
vars == <<vvars, gvars, svars, bvars, nvars>>

(***************************************************************************)
(* Bounds of the model.                                                    *)
(***************************************************************************)
MaxAccounts == 2
MaxNonce == 2
NumInvocations == 2
MaxIdLen == 3
MaxPostConditions == 2

(***************************************************************************)
(* Values shared by the components.                                        *)
(***************************************************************************)
\* TransactionVersion of @stacks/transactions
Mainnet == 0
Testnet == 128
\* a version tag that is neither (1), and a descriptor with no version (-1)
Versions == {Mainnet, Testnet, 1, -1}

\* payload.network: absent, or a descriptor with a version tag that may or may
\* not expose getTransferFeeEstimateApiUrl. "name" tells a caller-supplied
\* descriptor from the default networks built by the wallet.
NoNetwork == [present |-> FALSE, version |-> -1, hasFeeEstimate |-> FALSE, name |-> "none"]
Networks ==
    {NoNetwork} \cup
    [present : {TRUE}, version : Versions, hasFeeEstimate : BOOLEAN, name : {"custom"}]

\* TransactionTypes of @stacks/connect
ContractCall == "contract_call"
ContractDeploy == "smart_contract"
STXTransfer == "token_transfer"
TxTypes == {ContractCall, ContractDeploy, STXTransfer, "undefined", "coinbase"}

(***************************************************************************)
(* Keys, addresses, accounts.  The cryptographic primitives are modelled   *)
(* as injective constructors: two results are equal exactly when their     *)
(* inputs are.                                                             *)
(***************************************************************************)
AppsKeys == {1, 2}          \* account.appsKey of wallet accounts
ForeignAppsKeys == {0}      \* key material of no account of any wallet
StxKeys == {1, 2}           \* account.stxPrivateKey
Domains == {"app.one", "app.two"}

Accounts == [appsKey : AppsKeys, stxPrivateKey : StxKeys]

\* getAppPrivateKey({account, appDomain})
getAppPrivateKey(account, domain) ==
    [appsKey |-> account.appsKey, domain |-> domain]

\* getPublicKeyFromPrivate(privateKey)
getPublicKeyFromPrivate(privateKey) == [publicOf |-> privateKey]

\* getAddressFromPrivateKey(privateKey, version)
getAddressFromPrivateKey(privateKey, version) ==
    [kind |-> "address", version |-> version, hash |-> privateKey]

\* payload.stxAddress: undefined, the empty string, or an address
UndefinedAddress == [kind |-> "undefined", version |-> -1, hash |-> 0]
EmptyAddress == [kind |-> "empty", version |-> -1, hash |-> 0]
StxAddresses ==
    {UndefinedAddress, EmptyAddress} \cup
    {getAddressFromPrivateKey(k, v) : k \in StxKeys, v \in {Mainnet, Testnet}}

\* !stxAddress (line 242): undefined and '' are falsy
Falsy(stxAddress) == stxAddress.kind \in {"undefined", "empty"}

AppPrivateKeys ==
    [appsKey : AppsKeys \cup ForeignAppsKeys, domain : Domains]
PublicKeys == {getPublicKeyFromPrivate(k) : k \in AppPrivateKeys}
\* a signature segment that no key produced
CorruptSignature == [appsKey |-> -1, domain |-> "corrupt"]

\* the transaction request payload
Payloads ==
    [txType : TxTypes, network : Networks, publicKey : PublicKeys,
     stxAddress : StxAddresses]

\* sequences of accounts of length 0..n
RECURSIVE SeqsUpTo(_, _)
SeqsUpTo(S, n) ==
    IF n = 0 THEN {<<>>}
    ELSE LET shorter == SeqsUpTo(S, n - 1)
         IN shorter \cup {Append(s, x) : s \in {t \in shorter : Len(t) = n - 1}, x \in S}

(***************************************************************************)
(* verifyTxRequest                                                         *)
(***************************************************************************)
UNAUTHORIZED_TX_REQUEST == "The transaction request provided is not signed by this wallet."
INVALID_NETWORK_VERSION == "Invalid network version provided"
NOT_SIGNED == "Transaction request is not signed"

NoPayload ==
    [txType |-> "undefined", network |-> NoNetwork,
     publicKey |-> getPublicKeyFromPrivate([appsKey |-> -1, domain |-> "none"]),
     stxAddress |-> UndefinedAddress]
Pending == [kind |-> "pending", payload |-> NoPayload, message |-> ""]
Returned(payload) == [kind |-> "return", payload |-> payload, message |-> ""]
Thrown(message) == [kind |-> "throw", payload |-> NoPayload, message |-> message]

\* decodeToken(requestToken).payload
decodeToken(token) == token.payload

\* [Mainnet, Testnet].includes(network.version)
VersionRecognized(network) == network.version \in {Mainnet, Testnet}

\* faulty variant: the version is never validated
VersionNeverThrows(payload) == FALSE

\* getTransactionVersionFromRequest throws
VersionThrows(payload) ==
    payload.network.present /\ ~VersionRecognized(payload.network)

\* faulty variant: the version of the descriptor is ignored
getTransactionVersionAlwaysMainnet(payload) == Mainnet

\* getTransactionVersionFromRequest returns
getTransactionVersionFromRequest(payload) ==
    IF ~payload.network.present THEN Mainnet ELSE payload.network.version

\* faulty variant: the result of the verification is not looked at
verifyAsyncUnchecked(token, publicKey) == TRUE

\* new TokenVerifier('ES256k', publicKey).verifyAsync(requestToken)
verifyAsync(token, publicKey) ==
    getPublicKeyFromPrivate(token.signedWith) = publicKey

\* faulty variant: the find callback without the address gate
AccountMatchesKeyOnly(account, domain, publicKey, stxAddress, version) ==
    getPublicKeyFromPrivate(getAppPrivateKey(account, domain)) = publicKey

\* the callback of wallet.accounts.find
AccountMatches(account, domain, publicKey, stxAddress, version) ==
    LET appPrivateKey == getAppPrivateKey(account, domain)
        appPublicKey == getPublicKeyFromPrivate(appPrivateKey)
    IN IF appPublicKey # publicKey THEN FALSE
       ELSE IF Falsy(stxAddress) THEN TRUE
       ELSE IF stxAddress # getAddressFromPrivateKey(account.stxPrivateKey, version)
            THEN FALSE
       ELSE TRUE

VInit ==
    /\ requestToken \in
         {t \in [payload : Payloads, signedWith : AppPrivateKeys \cup {CorruptSignature}] :
            /\ t.payload.txType = STXTransfer
            /\ \/ t.signedWith = CorruptSignature
               \/ getPublicKeyFromPrivate(t.signedWith) = t.payload.publicKey}
    /\ wallet \in SeqsUpTo(Accounts, MaxAccounts)
    /\ appDomain \in Domains
    /\ vpc = "start"
    /\ txVersion = -1
    /\ scanIdx = 0
    /\ vlog = <<>>
    /\ vresult = Pending

VIdle ==
    /\ requestToken = [payload |-> NoPayload, signedWith |-> CorruptSignature]
    /\ wallet = <<>>
    /\ appDomain = "app.one"
    /\ vpc = "off"
    /\ txVersion = -1
    /\ scanIdx = 0
    /\ vlog = <<>>
    /\ vresult = Pending

\* lines 226-229: decode the token and resolve the network version
ResolveVersion ==
    /\ vpc = "start"
    /\ LET payload == decodeToken(requestToken)
       IN IF VersionThrows(payload)
          THEN /\ vresult' = Thrown(INVALID_NETWORK_VERSION)
               /\ vpc' = "done"
               /\ UNCHANGED txVersion
          ELSE /\ txVersion' = getTransactionVersionFromRequest(payload)
               /\ vpc' = "verify"
               /\ UNCHANGED vresult
    /\ vlog' = Append(vlog, "decodeToken")
    /\ UNCHANGED <<requestToken, wallet, appDomain, scanIdx>>
    /\ UNCHANGED <<gvars, svars, bvars, nvars>>

\* lines 230-234: verify the signature against the declared public key
VerifySignature ==
    /\ vpc = "verify"
    /\ vlog' = Append(vlog, "verifyAsync")
    /\ IF ~verifyAsync(requestToken, decodeToken(requestToken).publicKey)
       THEN /\ vresult' = Thrown(NOT_SIGNED)
            /\ vpc' = "done"
            /\ UNCHANGED scanIdx
       ELSE /\ vpc' = "scan"
            /\ scanIdx' = 1
            /\ UNCHANGED vresult
    /\ UNCHANGED <<requestToken, wallet, appDomain, txVersion>>
    /\ UNCHANGED <<gvars, svars, bvars, nvars>>

\* lines 235-246: one call of the find callback, on wallet.accounts[scanIdx]
ScanAccount ==
    /\ vpc = "scan"
    /\ scanIdx <= Len(wallet)
    /\ LET payload == decodeToken(requestToken)
       IN IF AccountMatches(wallet[scanIdx], appDomain, payload.publicKey,
                            payload.stxAddress, txVersion)
          THEN vpc' = "found" /\ UNCHANGED scanIdx
          ELSE scanIdx' = scanIdx + 1 /\ UNCHANGED vpc
    /\ vlog' = Append(vlog, "getAppPrivateKey")
    /\ UNCHANGED <<requestToken, wallet, appDomain, txVersion, vresult>>
    /\ UNCHANGED <<gvars, svars, bvars, nvars>>

\* faulty variant: the payload is returned although find returned undefined
ReturnUnauthorized ==
    /\ vpc = "scan"
    /\ scanIdx > Len(wallet)
    /\ vresult' = Returned(decodeToken(requestToken))
    /\ vpc' = "done"
    /\ UNCHANGED <<requestToken, wallet, appDomain, txVersion, scanIdx, vlog>>
    /\ UNCHANGED <<gvars, svars, bvars, nvars>>

\* lines 247-249: find returned undefined
ThrowUnauthorized ==
    /\ vpc = "scan"
    /\ scanIdx > Len(wallet)
    /\ vresult' = Thrown(UNAUTHORIZED_TX_REQUEST)
    /\ vpc' = "done"
    /\ UNCHANGED <<requestToken, wallet, appDomain, txVersion, scanIdx, vlog>>
    /\ UNCHANGED <<gvars, svars, bvars, nvars>>

\* line 250: find returned an account
ReturnPayload ==
    /\ vpc = "found"
    /\ vresult' = Returned(decodeToken(requestToken))
    /\ vpc' = "done"
    /\ UNCHANGED <<requestToken, wallet, appDomain, txVersion, scanIdx, vlog>>
    /\ UNCHANGED <<gvars, svars, bvars, nvars>>

VNext ==
    \/ ResolveVersion
    \/ VerifySignature
    \/ ScanAccount
    \/ ThrowUnauthorized
    \/ ReturnPayload

(***************************************************************************)
(* generateTransaction                                                     *)
(***************************************************************************)
\* new StacksMainnet() / new StacksTestnet(): both expose
\* getTransferFeeEstimateApiUrl
StacksMainnet ==
    [present |-> TRUE, version |-> Mainnet, hasFeeEstimate |-> TRUE, name |-> "StacksMainnet"]
StacksTestnet ==
    [present |-> TRUE, version |-> Testnet, hasFeeEstimate |-> TRUE, name |-> "StacksTestnet"]

\* nonce?: number
UndefinedNonce == [defined |-> FALSE, value |-> 0]
Number(n) == [defined |-> TRUE, value |-> n]
Nonces == {UndefinedNonce} \cup {Number(n) : n \in 0..MaxNonce}

\* nonce !== undefined ? new BN(nonce, 10) : undefined
UndefinedBN == [defined |-> FALSE, bn |-> 0]
BN(n) == [defined |-> TRUE, bn |-> n]
\* faulty variant: nonce ? new BN(nonce, 10) : undefined
NonceToBNIfTruthy(n) == IF n.defined /\ n.value # 0 THEN BN(n.value) ELSE UndefinedBN
NonceToBN(n) == IF n.defined THEN BN(n.value) ELSE UndefinedBN

\* let tx: StacksTransaction | null = null
NullTx == [made |-> "null", nonce |-> UndefinedBN, network |-> NoNetwork]

\* the transaction a construction path yields
generateContractCallTx(data, n) ==
    [made |-> "makeContractCall", nonce |-> NonceToBN(n), network |-> data.network]
\* faulty variant: a deploy built with the contract-call constructor
generateContractDeployTxAsCall(data, n) == generateContractCallTx(data, n)

generateContractDeployTx(data, n) ==
    [made |-> "makeContractDeploy", nonce |-> NonceToBN(n), network |-> data.network]
generateSTXTransferTx(data, n) ==
    [made |-> "makeSTXTokenTransfer", nonce |-> NonceToBN(n), network |-> data.network]

\* `Invalid Transaction Type: ${txData.txType}`
InvalidTransactionType(tag) == [text |-> "Invalid Transaction Type: ", tag |-> tag]
NoMessage == [text |-> "", tag |-> ""]
GPending == [kind |-> "pending", tx |-> NullTx, message |-> NoMessage]
GReturned(t) == [kind |-> "return", tx |-> t, message |-> NoMessage]
GThrown(m) == [kind |-> "throw", tx |-> NullTx, message |-> m]

\* faulty variant: the two default networks swapped
ResolvedNetworkSwapped(network) ==
    IF ~(network.present /\ network.hasFeeEstimate)
    THEN IF network.present /\ network.version = Mainnet
         THEN StacksTestnet
         ELSE StacksMainnet
    ELSE network

\* lines 126-132: the network the transaction is built for
ResolvedNetwork(network) ==
    IF ~(network.present /\ network.hasFeeEstimate)
    THEN IF network.present /\ network.version = Mainnet
         THEN StacksMainnet
         ELSE StacksTestnet
    ELSE network

GInit ==
    /\ txData \in {p \in Payloads :
                    /\ p.publicKey = getPublicKeyFromPrivate([appsKey |-> 1, domain |-> "app.one"])
                    /\ p.stxAddress = UndefinedAddress}
    /\ txDataIn = txData
    /\ nonce \in Nonces
    /\ gpc = "start"
    /\ glog = <<>>
    /\ tx = NullTx
    /\ gresult = GPending

GIdle ==
    /\ txData = NoPayload
    /\ txDataIn = NoPayload
    /\ nonce = UndefinedNonce
    /\ gpc = "off"
    /\ glog = <<>>
    /\ tx = NullTx
    /\ gresult = GPending

\* lines 125-132
ResolveNetwork ==
    /\ gpc = "start"
    /\ txData' = [txData EXCEPT !.network = ResolvedNetwork(txData.network)]
    /\ gpc' = "switch"
    /\ UNCHANGED <<txDataIn, nonce, glog, tx, gresult>>
    /\ UNCHANGED <<vvars, svars, bvars, nvars>>

\* lines 134-136
CaseContractCall ==
    /\ gpc = "switch"
    /\ txData.txType = ContractCall
    /\ tx' = generateContractCallTx(txData, nonce)
    /\ glog' = Append(glog, "generateContractCallTx")
    /\ gpc' = "check"
    /\ UNCHANGED <<txData, txDataIn, nonce, gresult>>
    /\ UNCHANGED <<vvars, svars, bvars, nvars>>

\* lines 137-139
CaseContractDeploy ==
    /\ gpc = "switch"
    /\ txData.txType = ContractDeploy
    /\ tx' = generateContractDeployTx(txData, nonce)
    /\ glog' = Append(glog, "generateContractDeployTx")
    /\ gpc' = "check"
    /\ UNCHANGED <<txData, txDataIn, nonce, gresult>>
    /\ UNCHANGED <<vvars, svars, bvars, nvars>>

\* lines 140-142
CaseSTXTransfer ==
    /\ gpc = "switch"
    /\ txData.txType = STXTransfer
    /\ tx' = generateSTXTransferTx(txData, nonce)
    /\ glog' = Append(glog, "generateSTXTransferTx")
    /\ gpc' = "check"
    /\ UNCHANGED <<txData, txDataIn, nonce, gresult>>
    /\ UNCHANGED <<vvars, svars, bvars, nvars>>

\* lines 143-144
CaseDefault ==
    /\ gpc = "switch"
    /\ txData.txType \notin {ContractCall, ContractDeploy, STXTransfer}
    /\ gpc' = "check"
    /\ UNCHANGED <<txData, txDataIn, nonce, glog, tx, gresult>>
    /\ UNCHANGED <<vvars, svars, bvars, nvars>>

\* lines 146-148
ThrowInvalidType ==
    /\ gpc = "check"
    /\ tx = NullTx
    /\ gresult' = GThrown(InvalidTransactionType(txData.txType))
    /\ gpc' = "done"
    /\ UNCHANGED <<txData, txDataIn, nonce, glog, tx>>
    /\ UNCHANGED <<vvars, svars, bvars, nvars>>

\* line 149
ReturnTx ==
    /\ gpc = "check"
    /\ tx # NullTx
    /\ gresult' = GReturned(tx)
    /\ gpc' = "done"
    /\ UNCHANGED <<txData, txDataIn, nonce, glog, tx>>
    /\ UNCHANGED <<vvars, svars, bvars, nvars>>

GNext ==
    \/ ResolveNetwork
    \/ CaseContractCall
    \/ CaseContractDeploy
    \/ CaseSTXTransfer
    \/ CaseDefault
    \/ ThrowInvalidType
    \/ ReturnTx

(***************************************************************************)
(* useHandleSubmitTransaction                                              *)
(***************************************************************************)
Invocations == 1..NumInvocations

\* TxBroadcastResultRejected['reason'], among them the four the hook names,
\* one it does not, and a rejection that carries no reason
Reasons ==
    {"ConflictingNonceInMempool", "BadNonce", "NotEnoughFunds", "FeeTooLow",
     "Serialization", "undefined"}

\* faulty variant: the messages of the two nonce reasons swapped
getErrorMessageSwapped(reason) ==
    CASE reason = "ConflictingNonceInMempool" -> "Incorrect nonce."
      [] reason = "BadNonce" -> "Nonce conflict, try again soon."
      [] reason = "NotEnoughFunds" -> "Not enough funds."
      [] reason = "FeeTooLow" -> "Fee is too low."
      [] OTHER -> "Something went wrong"

\* getErrorMessage(reason)
getErrorMessage(reason) ==
    CASE reason = "ConflictingNonceInMempool" -> "Nonce conflict, try again soon."
      [] reason = "BadNonce" -> "Incorrect nonce."
      [] reason = "NotEnoughFunds" -> "Not enough funds."
      [] reason = "FeeTooLow" -> "Fee is too low."
      [] OTHER -> "Something went wrong"

\* the hook's transaction: null, or a built transaction
Transactions ==
    {NullTx} \cup
    {generateSTXTransferTx([network |-> StacksTestnet], Number(n)) : n \in 1..MaxNonce}

\* an entry of the callback's log: a call it made (op, argument), or the
\* settling of the broadcast it awaited ("accepted", "rejected" with the
\* reason, "threw")
Call(op, arg) == [op |-> op, arg |-> arg]

\* lines 64-66: onClose(); setIsIdle(); doChangeScreen(ScreenPaths.HOME)
CleanupCalls ==
    <<Call("onClose", ""), Call("setIsIdle", ""), Call("doChangeScreen", "HOME")>>

\* the callback runs lines 64-66 after the calls in `calls` and returns
Finish(i, calls) ==
    /\ slog' = [slog EXCEPT ![i] = slog[i] \o calls \o CleanupCalls]
    /\ isLoading' = FALSE
    /\ screen' = "HOME"
    /\ spc' = [spc EXCEPT ![i] = "done"]

\* the callback makes the calls in `calls` and suspends at an await
Suspend(i, calls, at) ==
    /\ slog' = [slog EXCEPT ![i] = slog[i] \o calls]
    /\ spc' = [spc EXCEPT ![i] = at]
    /\ UNCHANGED <<isLoading, screen>>

SInit ==
    /\ transaction \in [Invocations -> Transactions]
    /\ spc = [i \in Invocations |-> "idle"]
    /\ slog = [i \in Invocations |-> <<>>]
    /\ isLoading = FALSE
    /\ screen = "TRANSACTION_REQUEST"
    /\ latestNonce = 0

SIdle ==
    /\ transaction = [i \in Invocations |-> NullTx]
    /\ spc = [i \in Invocations |-> "off"]
    /\ slog = [i \in Invocations |-> <<>>]
    /\ isLoading = FALSE
    /\ screen = "TRANSACTION_REQUEST"
    /\ latestNonce = 0

\* lines 49-52 with a transaction: setIsLoading(), then the broadcast is sent
SubmitTransaction(i) ==
    /\ spc[i] = "idle"
    /\ transaction[i] # NullTx
    /\ slog' = [slog EXCEPT ![i] =
                  <<Call("setIsLoading", ""), Call("broadcastTransaction", "")>>]
    /\ isLoading' = TRUE
    /\ spc' = [spc EXCEPT ![i] = "awaitBroadcast"]
    /\ UNCHANGED <<transaction, screen, latestNonce>>
    /\ UNCHANGED <<vvars, gvars, bvars, nvars>>

\* lines 49-50, 64-66 without a transaction
SubmitNothing(i) ==
    /\ spc[i] = "idle"
    /\ transaction[i] = NullTx
    /\ slog' = [slog EXCEPT ![i] = <<Call("setIsLoading", "")>> \o CleanupCalls]
    /\ isLoading' = FALSE
    /\ screen' = "HOME"
    /\ spc' = [spc EXCEPT ![i] = "done"]
    /\ UNCHANGED <<transaction, latestNonce>>
    /\ UNCHANGED <<vvars, gvars, bvars, nvars>>

\* faulty variant: the nonce is updated after a rejection too
BroadcastRejectedSetsNonce(i, reason) ==
    /\ spc[i] = "awaitBroadcast"
    /\ Suspend(i, <<Call("rejected", reason),
                    Call("toast.error", getErrorMessage(reason)),
                    Call("doSetLatestNonce", "")>>, "awaitNonce")
    /\ UNCHANGED <<transaction, latestNonce>>
    /\ UNCHANGED <<vvars, gvars, bvars, nvars>>

\* lines 53-54, 64-66: the broadcast returned a rejection
BroadcastRejected(i, reason) ==
    /\ spc[i] = "awaitBroadcast"
    /\ Finish(i, <<Call("rejected", reason),
                   Call("toast.error", getErrorMessage(reason))>>)
    /\ UNCHANGED <<transaction, latestNonce>>
    /\ UNCHANGED <<vvars, gvars, bvars, nvars>>

\* lines 55-56: the broadcast returned a transaction id
BroadcastAccepted(i) ==
    /\ spc[i] = "awaitBroadcast"
    /\ Suspend(i, <<Call("accepted", ""), Call("doSetLatestNonce", "")>>,
               "awaitNonce")
    /\ UNCHANGED <<transaction, latestNonce>>
    /\ UNCHANGED <<vvars, gvars, bvars, nvars>>

\* faulty variant: after a thrown broadcast the transaction is sent again
BroadcastThrewRetries(i) ==
    /\ spc[i] = "awaitBroadcast"
    /\ Suspend(i, <<Call("threw", ""), Call("broadcastTransaction", "")>>,
               "awaitBroadcast")
    /\ UNCHANGED <<transaction, latestNonce>>
    /\ UNCHANGED <<vvars, gvars, bvars, nvars>>

\* faulty variant: no catch, the exception leaves the callback
BroadcastThrewUncaught(i) ==
    /\ spc[i] = "awaitBroadcast"
    /\ slog' = [slog EXCEPT ![i] = Append(slog[i], Call("threw", ""))]
    /\ spc' = [spc EXCEPT ![i] = "done"]
    /\ UNCHANGED <<transaction, isLoading, screen, latestNonce>>
    /\ UNCHANGED <<vvars, gvars, bvars, nvars>>

\* lines 60-62, 64-66: the broadcast threw
BroadcastThrew(i) ==
    /\ spc[i] = "awaitBroadcast"
    /\ Finish(i, <<Call("threw", ""),
                   Call("toast.error", "Something went wrong")>>)
    /\ UNCHANGED <<transaction, latestNonce>>
    /\ UNCHANGED <<vvars, gvars, bvars, nvars>>

\* lines 56-57: doSetLatestNonce(transaction) completed
NonceUpdated(i) ==
    /\ spc[i] = "awaitNonce"
    /\ latestNonce' = transaction[i].nonce.bn
    /\ Suspend(i, <<Call("revalidate", "")>>, "awaitRevalidate")
    /\ UNCHANGED transaction
    /\ UNCHANGED <<vvars, gvars, bvars, nvars>>

\* lines 56, 60-62, 64-66: doSetLatestNonce threw
NonceThrew(i) ==
    /\ spc[i] = "awaitNonce"
    /\ Finish(i, <<Call("toast.error", "Something went wrong")>>)
    /\ UNCHANGED <<transaction, latestNonce>>
    /\ UNCHANGED <<vvars, gvars, bvars, nvars>>

\* lines 57-58, 64-66: revalidate completed
Revalidated(i) ==
    /\ spc[i] = "awaitRevalidate"
    /\ Finish(i, <<Call("toast.success", "Transaction submitted!")>>)
    /\ UNCHANGED <<transaction, latestNonce>>
    /\ UNCHANGED <<vvars, gvars, bvars, nvars>>

\* faulty variant: a failed revalidation is swallowed without a toast
RevalidateThrewSilently(i) ==
    /\ spc[i] = "awaitRevalidate"
    /\ Finish(i, <<>>)
    /\ UNCHANGED <<transaction, latestNonce>>
    /\ UNCHANGED <<vvars, gvars, bvars, nvars>>

\* lines 57, 60-62, 64-66: revalidate threw
RevalidateThrew(i) ==
    /\ spc[i] = "awaitRevalidate"
    /\ Finish(i, <<Call("toast.error", "Something went wrong")>>)
    /\ UNCHANGED <<transaction, latestNonce>>
    /\ UNCHANGED <<vvars, gvars, bvars, nvars>>

\* the awaited promise of invocation i settles
Settle(i) ==
    \/ \E reason \in Reasons : BroadcastRejected(i, reason)
    \/ BroadcastAccepted(i)
    \/ BroadcastThrew(i)
    \/ NonceUpdated(i)
    \/ NonceThrew(i)
    \/ Revalidated(i)
    \/ RevalidateThrew(i)

SNext ==
    \/ \E i \in Invocations : SubmitTransaction(i)
    \/ \E i \in Invocations : SubmitNothing(i)
    \/ \E i \in Invocations : \E reason \in Reasons : BroadcastRejected(i, reason)
    \/ \E i \in Invocations : BroadcastAccepted(i)
    \/ \E i \in Invocations : BroadcastThrew(i)
    \/ \E i \in Invocations : NonceUpdated(i)
    \/ \E i \in Invocations : NonceThrew(i)
    \/ \E i \in Invocations : Revalidated(i)
    \/ \E i \in Invocations : RevalidateThrew(i)

(***************************************************************************)
(* finishTransaction                                                       *)
(***************************************************************************)
\* strings that are taken apart are sequences of characters
Quote == "\""
Prefix0x == <<"0", "x">>
HexDigits == <<"0", "1", "2", "3", "4", "5", "6", "7", "8", "9",
               "a", "b", "c", "d", "e", "f">>

\* tx.serialize(): the bytes of a transaction
TypeByte(t) ==
    CASE t.made = "makeSTXTokenTransfer" -> 0
      [] t.made = "makeContractDeploy" -> 1
      [] t.made = "makeContractCall" -> 2
      [] OTHER -> 255
serialize(t) == <<t.network.version, TypeByte(t), t.nonce.bn>>

\* serialized.toString('hex')
RECURSIVE toStringHex(_)
toStringHex(bytes) ==
    IF bytes = <<>> THEN <<>>
    ELSE <<HexDigits[(bytes[1] \div 16) + 1], HexDigits[(bytes[1] % 16) + 1]>>
           \o toStringHex(Tail(bytes))

\* txIdJson.replace('"', ''): a string pattern replaces its first occurrence
RECURSIVE replaceQuote(_)
replaceQuote(str) ==
    IF str = <<>> THEN <<>>
    ELSE IF str[1] = Quote THEN Tail(str)
    ELSE <<str[1]>> \o replaceQuote(Tail(str))

\* a field of the rejection body: undefined, or a string
Undefined == [defined |-> FALSE, text |-> ""]
String(text) == [defined |-> TRUE, text |-> text]
\* if (response.error): undefined and '' are falsy
Truthy(field) == field.defined /\ field.text # ""
\* ${field} in a template literal
Interpolate(field) == IF field.defined THEN field.text ELSE "undefined"

\* the node's answers: ok with the transaction id as body, or not ok with a
\* body that may carry error and reason
IdChars == {Quote, "a", "1"}
OkResponses ==
    {[ok |-> TRUE, json |-> id, error |-> Undefined, reason |-> Undefined] :
        id \in SeqsUpTo(IdChars, MaxIdLen)}
RejectedResponses ==
    [ok : {FALSE}, json : {<<>>},
     error : {Undefined, String(""), String("transaction rejected")},
     reason : {Undefined, String("BadNonce"), String("NotEnoughFunds")}]

\* `${response.error} - ${response.reason}`
RejectionMessage(body) ==
    <<Interpolate(body.error), " - ", Interpolate(body.reason)>>
UNABLE_TO_SUBMIT == <<"Unable to submit transaction">>

BPending == [kind |-> "pending", txId |-> <<>>, txRaw |-> <<>>, message |-> <<>>]
BReturned(txId, txRaw) ==
    [kind |-> "return", txId |-> txId, txRaw |-> txRaw, message |-> <<>>]
BThrown(message) ==
    [kind |-> "throw", txId |-> <<>>, txRaw |-> <<>>, message |-> message]

\* the transactions handed to finishTransaction
SignedTransactions ==
    {generateSTXTransferTx([network |-> n], Number(k)) :
        n \in {StacksMainnet, StacksTestnet}, k \in 0..MaxNonce}
    \cup {generateContractCallTx([network |-> StacksTestnet], Number(MaxNonce))}

BInit ==
    /\ btx \in SignedTransactions
    /\ response \in OkResponses \cup RejectedResponses
    /\ bpc = "start"
    /\ serialized = <<>>
    /\ serializeCalls = 0
    /\ sent = <<>>
    /\ errorLog = <<>>
    /\ bresult = BPending

BIdle ==
    /\ btx = NullTx
    /\ response = [ok |-> FALSE, json |-> <<>>, error |-> Undefined, reason |-> Undefined]
    /\ bpc = "off"
    /\ serialized = <<>>
    /\ serializeCalls = 0
    /\ sent = <<>>
    /\ errorLog = <<>>
    /\ bresult = BPending

\* lines 160-162: serialize the transaction and submit the bytes
SerializeAndSend ==
    /\ bpc = "start"
    /\ serialized' = serialize(btx)
    /\ serializeCalls' = serializeCalls + 1
    /\ sent' = Append(sent, serialize(btx))
    /\ bpc' = "awaitBroadcast"
    /\ UNCHANGED <<btx, response, errorLog, bresult>>
    /\ UNCHANGED <<vvars, gvars, svars, nvars>>

\* faulty variant: the hex is taken from a second serialization
ResponseOkReserializes ==
    /\ bpc = "awaitBroadcast"
    /\ response.ok
    /\ serializeCalls' = serializeCalls + 1
    /\ bresult' = BReturned(Prefix0x \o replaceQuote(response.json),
                            Prefix0x \o toStringHex(serialize(btx)))
    /\ bpc' = "done"
    /\ UNCHANGED <<btx, response, serialized, sent, errorLog>>
    /\ UNCHANGED <<vvars, gvars, svars, nvars>>

\* lines 164-171: the node accepted the transaction
ResponseOk ==
    /\ bpc = "awaitBroadcast"
    /\ response.ok
    /\ bresult' = BReturned(Prefix0x \o replaceQuote(response.json),
                            Prefix0x \o toStringHex(serialized))
    /\ bpc' = "done"
    /\ UNCHANGED <<btx, response, serialized, serializeCalls, sent, errorLog>>
    /\ UNCHANGED <<vvars, gvars, svars, nvars>>

\* lines 172-179: the node rejected it, the body carries an error
ResponseError ==
    /\ bpc = "awaitBroadcast"
    /\ ~response.ok
    /\ Truthy(response.error)
    /\ errorLog' = errorLog \o <<Interpolate(response.error), Interpolate(response.reason)>>
    /\ bresult' = BThrown(RejectionMessage(response))
    /\ bpc' = "done"
    /\ UNCHANGED <<btx, response, serialized, serializeCalls, sent>>
    /\ UNCHANGED <<vvars, gvars, svars, nvars>>

\* faulty variant: without the final throw the call returns a result
ResponseNoErrorReturns ==
    /\ bpc = "awaitBroadcast"
    /\ ~response.ok
    /\ ~Truthy(response.error)
    /\ bresult' = BReturned(Prefix0x, Prefix0x \o toStringHex(serialized))
    /\ bpc' = "done"
    /\ UNCHANGED <<btx, response, serialized, serializeCalls, sent, errorLog>>
    /\ UNCHANGED <<vvars, gvars, svars, nvars>>

\* lines 172-174, 180: the node rejected it, the body carries no error
ResponseNoError ==
    /\ bpc = "awaitBroadcast"
    /\ ~response.ok
    /\ ~Truthy(response.error)
    /\ bresult' = BThrown(UNABLE_TO_SUBMIT)
    /\ bpc' = "done"
    /\ UNCHANGED <<btx, response, serialized, serializeCalls, sent, errorLog>>
    /\ UNCHANGED <<vvars, gvars, svars, nvars>>

BNext ==
    \/ SerializeAndSend
    \/ ResponseOk
    \/ ResponseError
    \/ ResponseNoError

(***************************************************************************)
(* getPostConditions                                                       *)
(***************************************************************************)
\* the amount of a post-condition: a number, a string, a BN, or no amount
NoAmount == [type |-> "none", num |-> 0, digits |-> <<>>]
NumberAmount(n) == [type |-> "number", num |-> n, digits |-> <<>>]
StringAmount(d) == [type |-> "string", num |-> 0, digits |-> d]
BNAmount(v) == [type |-> "BN", num |-> v, digits |-> <<>>]

\* the value of a hexadecimal digit
HexValue(c) == CHOOSE v \in 0..15 : HexDigits[v + 1] = c

\* the number a string of hexadecimal digits denotes
RECURSIVE ParseHex(_)
ParseHex(d) ==
    IF d = <<>> THEN 0
    ELSE 16 * ParseHex(SubSeq(d, 1, Len(d) - 1)) + HexValue(d[Len(d)])

\* new BN(amount, 16): digits are read in base 16, a number or a BN keeps
\* its value
NewBN16(amount) ==
    IF amount.type = "string" THEN BNAmount(ParseHex(amount.digits))
    ELSE BNAmount(amount.num)

\* postCondition.amount in a condition: 0 and '' are falsy
TruthyAmount(amount) ==
    CASE amount.type = "number" -> amount.num # 0
      [] amount.type = "string" -> amount.digits # <<>>
      [] amount.type = "BN" -> TRUE
      [] OTHER -> FALSE

\* a post-condition: a hex string, or a structured object with or without
\* an amount field
HexEntry(hex) ==
    [kind |-> "hex", principal |-> "", hasAmount |-> FALSE, amount |-> NoAmount, hex |-> hex]
Structured(principal, hasAmount, amount) ==
    [kind |-> "structured", principal |-> principal, hasAmount |-> hasAmount,
     amount |-> amount, hex |-> <<>>]

\* deserializePostCondition(BufferReader.fromBuffer(Buffer.from(hex, 'hex'))):
\* the first byte names the principal, the rest is the amount
deserializePostCondition(hex) ==
    Structured(IF SubSeq(hex, 1, 2) = <<"0", "1">> THEN "origin" ELSE "standard",
               TRUE, BNAmount(ParseHex(SubSeq(hex, 3, Len(hex)))))

PostConditionEntries ==
    {HexEntry(<<"0", "1", "0", "a">>), HexEntry(<<"0", "2", "f", "f">>)}
    \cup {Structured("origin", TRUE, a) :
             a \in {NumberAmount(0), NumberAmount(7), StringAmount(<<>>),
                    StringAmount(<<"0">>), StringAmount(<<"1", "f">>), BNAmount(5)}}
    \cup {Structured("standard", FALSE, NoAmount)}

\* the callback of postConditions.map, on one entry
NormalizedEntry(postCondition) ==
    IF postCondition.kind = "hex"
    THEN deserializePostCondition(postCondition.hex)
    ELSE IF postCondition.hasAmount /\ TruthyAmount(postCondition.amount)
    THEN [postCondition EXCEPT !.amount = NewBN16(postCondition.amount)]
    ELSE postCondition

NInit ==
    /\ postConditions \in
         {[defined |-> FALSE, entries |-> <<>>]} \cup
         [defined : {TRUE}, entries : SeqsUpTo(PostConditionEntries, MaxPostConditions)]
    /\ npc = "start"
    /\ mapped = <<>>

NIdle ==
    /\ postConditions = [defined |-> FALSE, entries |-> <<>>]
    /\ npc = "off"
    /\ mapped = <<>>

\* line 31: postConditions?.map with postConditions undefined
ReturnUndefined ==
    /\ npc = "start"
    /\ ~postConditions.defined
    /\ npc' = "done"
    /\ UNCHANGED <<postConditions, mapped>>
    /\ UNCHANGED <<vvars, gvars, svars, bvars>>

\* lines 32-35: the next entry is a hex string
MapHexString ==
    /\ npc = "start"
    /\ postConditions.defined
    /\ Len(mapped) < Len(postConditions.entries)
    /\ postConditions.entries[Len(mapped) + 1].kind = "hex"
    /\ mapped' = Append(mapped, NormalizedEntry(postConditions.entries[Len(mapped) + 1]))
    /\ UNCHANGED <<postConditions, npc>>
    /\ UNCHANGED <<vvars, gvars, svars, bvars>>

\* lines 36-42: the next entry is a structured post-condition
MapStructured ==
    /\ npc = "start"
    /\ postConditions.defined
    /\ Len(mapped) < Len(postConditions.entries)
    /\ postConditions.entries[Len(mapped) + 1].kind = "structured"
    /\ mapped' = Append(mapped, NormalizedEntry(postConditions.entries[Len(mapped) + 1]))
    /\ UNCHANGED <<postConditions, npc>>
    /\ UNCHANGED <<vvars, gvars, svars, bvars>>

\* lines 31, 43: map returns the new array
ReturnMapped ==
    /\ npc = "start"
    /\ postConditions.defined
    /\ Len(mapped) = Len(postConditions.entries)
    /\ npc' = "done"
    /\ UNCHANGED <<postConditions, mapped>>
    /\ UNCHANGED <<vvars, gvars, svars, bvars>>

NNext ==
    \/ ReturnUndefined
    \/ MapHexString
    \/ MapStructured
    \/ ReturnMapped

(***************************************************************************)
(* Specifications                                                          *)
(***************************************************************************)
InitVerify == VInit /\ GIdle /\ SIdle /\ BIdle /\ NIdle
InitBuild == VIdle /\ GInit /\ SIdle /\ BIdle /\ NIdle
InitSubmit == VIdle /\ GIdle /\ SInit /\ BIdle /\ NIdle
InitBroadcast == VIdle /\ GIdle /\ SIdle /\ BInit /\ NIdle
\* the Verifier on any request; the Builder waits for the accepted payload
InitPipeline ==
    /\ requestToken \in
         {t \in [payload : Payloads, signedWith : AppPrivateKeys \cup {CorruptSignature}] :
            \/ t.signedWith = CorruptSignature
            \/ getPublicKeyFromPrivate(t.signedWith) = t.payload.publicKey}
    /\ wallet \in SeqsUpTo(Accounts, MaxAccounts)
    /\ appDomain \in Domains
    /\ vpc = "start"
    /\ txVersion = -1
    /\ scanIdx = 0
    /\ vlog = <<>>
    /\ vresult = Pending
    /\ txData = NoPayload
    /\ txDataIn = NoPayload
    /\ nonce = UndefinedNonce
    /\ gpc = "wait"
    /\ glog = <<>>
    /\ tx = NullTx
    /\ gresult = GPending
    /\ SIdle /\ BIdle /\ NIdle
InitNormalize == VIdle /\ GIdle /\ SIdle /\ BIdle /\ NInit
\* one finishTransaction call (accepted, rejected with and without an error
\* body) beside the invocations of the submit callback
InitAttempts ==
    /\ VIdle /\ GIdle /\ SInit /\ BInit /\ NIdle
    /\ btx = generateContractCallTx([network |-> StacksTestnet], Number(MaxNonce))
    /\ response.ok => response.json = <<"a">>
    /\ response.reason = Undefined
    /\ response.error # String("")

SpecVerify == InitVerify /\ [][VNext]_vars

SpecBuild == InitBuild /\ [][GNext]_vars

SpecBroadcast == InitBroadcast /\ [][BNext]_vars

SpecNormalize == InitNormalize /\ [][NNext]_vars

\* generateTransaction is called with the payload verifyTxRequest returned
StartBuild ==
    /\ vpc = "done"
    /\ vresult.kind = "return"
    /\ gpc = "wait"
    /\ txData' = vresult.payload
    /\ txDataIn' = vresult.payload
    /\ gpc' = "start"
    /\ UNCHANGED <<nonce, glog, tx, gresult>>
    /\ UNCHANGED <<vvars, svars, bvars, nvars>>

PipelineNext ==
    \/ ResolveVersion
    \/ VerifySignature
    \/ ScanAccount
    \/ ThrowUnauthorized
    \/ ReturnPayload
    \/ StartBuild
    \/ ResolveNetwork
    \/ CaseContractCall
    \/ CaseContractDeploy
    \/ CaseSTXTransfer
    \/ CaseDefault
    \/ ThrowInvalidType
    \/ ReturnTx

SpecPipeline == InitPipeline /\ [][PipelineNext]_vars

AttemptsNext ==
    \/ SerializeAndSend
    \/ ResponseOk
    \/ ResponseError
    \/ ResponseNoError
    \/ \E i \in Invocations : SubmitTransaction(i)
    \/ \E i \in Invocations : SubmitNothing(i)
    \/ \E i \in Invocations : \E reason \in Reasons : BroadcastRejected(i, reason)
    \/ \E i \in Invocations : BroadcastAccepted(i)
    \/ \E i \in Invocations : BroadcastThrew(i)
    \/ \E i \in Invocations : NonceUpdated(i)
    \/ \E i \in Invocations : NonceThrew(i)
    \/ \E i \in Invocations : Revalidated(i)
    \/ \E i \in Invocations : RevalidateThrew(i)

SpecAttempts == InitAttempts /\ [][AttemptsNext]_vars

\* every awaited promise settles: the broadcast, the nonce update and the
\* revalidation each resolve or reject
SpecSubmit ==
    /\ InitSubmit
    /\ [][SNext]_vars
    /\ \A i \in Invocations : WF_vars(Settle(i))

(***************************************************************************)
(* Properties of verifyTxRequest                                           *)
(***************************************************************************)
ThePayload == requestToken.payload

\* (1) the network descriptor is absent or its version is Mainnet or Testnet
NetworkAcceptable ==
    \/ ~ThePayload.network.present
    \/ ThePayload.network.version = 0
    \/ ThePayload.network.version = 128

\* the version addresses are derived under
ResolvedVersion ==
    IF ThePayload.network.present THEN ThePayload.network.version ELSE 0

\* (2) the token was signed by the private key of the declared public key
SignatureVerifies ==
    getPublicKeyFromPrivate(requestToken.signedWith) = ThePayload.publicKey

\* the payload declares a (non-empty) target address
DeclaresAddress == ThePayload.stxAddress.kind = "address"

\* the key gate and the address gate, for one account
PassesKeyGate(account) ==
    getPublicKeyFromPrivate(getAppPrivateKey(account, appDomain)) = ThePayload.publicKey
PassesAddressGate(account) ==
    DeclaresAddress =>
        getAddressFromPrivateKey(account.stxPrivateKey, ResolvedVersion) = ThePayload.stxAddress

\* (3) some account of the wallet passes both gates
SomeAccountAuthorizes ==
    \E k \in 1..Len(wallet) : PassesKeyGate(wallet[k]) /\ PassesAddressGate(wallet[k])

\* C1: verifyTxRequest returns the decoded payload if and only if the network
\* version is acceptable, the signature verifies and some account of the
\* wallet passes the key gate and (for a declared address) the address gate;
\* in every other case it throws and returns no payload.
C1_ReturnsIffAuthorized ==
    vpc = "done" =>
        /\ vresult.kind \in {"return", "throw"}
        /\ vresult.kind = "return" <=>
               (NetworkAcceptable /\ SignatureVerifies /\ SomeAccountAuthorizes)
        /\ vresult.kind = "return" => vresult.payload = ThePayload
        /\ vresult.kind = "throw" => vresult.payload = NoPayload

\* a testnet request with a declared address is accepted on the second account
C1_Witness ==
    /\ vpc = "done"
    /\ vresult.kind = "return"
    /\ DeclaresAddress
    /\ ThePayload.network.version = 128
    /\ Len(wallet) = 2
    /\ ~(PassesKeyGate(wallet[1]) /\ PassesAddressGate(wallet[1]))

\* C2 (as amended): with a declared target address the request is accepted
\* only if some account passes both the key gate and the address gate; an
\* account that passes the key gate alone never authorizes it; and when the
\* network version is acceptable and the signature verifies, a wallet with no
\* such account makes verifyTxRequest throw the Unauthorized error.
C2_AddressIsSecondGate ==
    (vpc = "done" /\ DeclaresAddress) =>
        /\ vresult.kind = "return" => SomeAccountAuthorizes
        /\ (\A k \in 1..Len(wallet) : ~PassesAddressGate(wallet[k]))
              => vresult.kind = "throw"
        /\ (NetworkAcceptable /\ SignatureVerifies /\ ~SomeAccountAuthorizes)
              => vresult = Thrown("The transaction request provided is not signed by this wallet.")

\* an account passes the key gate, its address differs, the request is refused
C2_Witness ==
    /\ vpc = "done"
    /\ DeclaresAddress
    /\ SignatureVerifies
    /\ \E k \in 1..Len(wallet) : PassesKeyGate(wallet[k]) /\ ~PassesAddressGate(wallet[k])
    /\ vresult = Thrown("The transaction request provided is not signed by this wallet.")

\* C2 as stated: with a declared target address, verifyTxRequest fails with
\* the Unauthorized error whenever no account passes both gates.
C2_Original ==
    (vpc = "done" /\ DeclaresAddress) =>
        /\ vresult.kind = "return" => SomeAccountAuthorizes
        /\ ~SomeAccountAuthorizes
              => vresult = Thrown("The transaction request provided is not signed by this wallet.")

\* C3: for a token whose signature verifies and whose network version is
\* recognized, if no account of the wallet passes the gates (the domain
\* differs, the signing account is missing, the wallet is empty) the error
\* message is exactly the Unauthorized message.
C3_UnauthorizedMessage ==
    (vpc = "done" /\ NetworkAcceptable /\ SignatureVerifies /\ ~SomeAccountAuthorizes) =>
        /\ vresult.kind = "throw"
        /\ vresult.message = "The transaction request provided is not signed by this wallet."

\* the wallet holds the signing account, the request names another domain
C3_Witness ==
    /\ vpc = "done"
    /\ NetworkAcceptable /\ SignatureVerifies /\ ~SomeAccountAuthorizes
    /\ requestToken.signedWith.domain # appDomain
    /\ \E k \in 1..Len(wallet) :
          getAppPrivateKey(wallet[k], requestToken.signedWith.domain) = requestToken.signedWith
    /\ vresult.kind = "throw"

\* C4 (as amended): if the network version is acceptable and the signature
\* does not verify, verifyTxRequest throws the UnsignedRequest error whatever
\* the wallet contains; and for every unsigned token the account scan is never
\* reached and the Unauthorized error is never reported.
C4_UnsignedRequest ==
    ~SignatureVerifies =>
        /\ (vpc = "done" /\ NetworkAcceptable)
              => vresult = Thrown("Transaction request is not signed")
        /\ \A k \in 1..Len(vlog) : vlog[k] # "getAppPrivateKey"
        /\ vpc \notin {"scan", "found"}
        /\ vresult.message # "The transaction request provided is not signed by this wallet."

\* an unsigned token is refused although the wallet holds a matching account
C4_Witness ==
    /\ vpc = "done"
    /\ ~SignatureVerifies
    /\ SomeAccountAuthorizes
    /\ vresult = Thrown("Transaction request is not signed")

\* C4 as stated: if the signature does not verify, verifyTxRequest fails with
\* the UnsignedRequest error.
C4_Original ==
    (vpc = "done" /\ ~SignatureVerifies) =>
        vresult = Thrown("Transaction request is not signed")

\* C5: a present network descriptor whose version is neither Mainnet nor
\* Testnet makes verifyTxRequest throw InvalidNetworkVersion, whether or not
\* the signature is valid, and before any signature verification or key
\* derivation; a payload without descriptor passes this step and resolves to
\* Mainnet.
C5_InvalidNetworkFailsFast ==
    /\ (vpc = "done" /\ ~NetworkAcceptable)
          => vresult = Thrown("Invalid network version provided")
    /\ vresult.message = "Invalid network version provided"
          => /\ ~NetworkAcceptable
             /\ vlog = <<"decodeToken">>
    /\ ~NetworkAcceptable
          => \A k \in 1..Len(vlog) : vlog[k] \notin {"verifyAsync", "getAppPrivateKey"}
    /\ (~ThePayload.network.present /\ vpc \notin {"start", "off"})
          => /\ txVersion = 0
             /\ vresult.message # "Invalid network version provided"

\* a validly signed request with an unknown version, refused at the first step
C5_Witness ==
    /\ vpc = "done"
    /\ ThePayload.network.present
    /\ ThePayload.network.version = 1
    /\ SignatureVerifies
    /\ SomeAccountAuthorizes
    /\ vresult = Thrown("Invalid network version provided")

(***************************************************************************)
(* Properties of generateTransaction                                       *)
(***************************************************************************)
\* the construction path and the make function of each transaction type
PathOf(type) ==
    CASE type = "contract_call" -> "generateContractCallTx"
      [] type = "smart_contract" -> "generateContractDeployTx"
      [] type = "token_transfer" -> "generateSTXTransferTx"
MakeOf(type) ==
    CASE type = "contract_call" -> "makeContractCall"
      [] type = "smart_contract" -> "makeContractDeploy"
      [] type = "token_transfer" -> "makeSTXTokenTransfer"

\* C9: for a txType among ContractCall, ContractDeploy, STXTransfer,
\* generateTransaction invokes exactly the construction path of that type and
\* returns its transaction; for any other txType it invokes no path and throws
\* "Invalid Transaction Type: <tag>".
C9_DispatchByType ==
    gpc = "done" =>
        IF txDataIn.txType \in {"contract_call", "smart_contract", "token_transfer"}
        THEN /\ glog = <<PathOf(txDataIn.txType)>>
             /\ gresult.kind = "return"
             /\ gresult.tx = tx
             /\ gresult.tx.made = MakeOf(txDataIn.txType)
        ELSE /\ glog = <<>>
             /\ gresult.kind = "throw"
             /\ gresult.tx = NullTx
             /\ gresult.message.text = "Invalid Transaction Type: "
             /\ gresult.message.tag = txDataIn.txType

\* a contract deploy was built through its own path
C9_Witness ==
    /\ gpc = "done"
    /\ txDataIn.txType = "smart_contract"
    /\ glog = <<"generateContractDeployTx">>
    /\ gresult.kind = "return"

\* C10: a descriptor exposing the fee-estimate capability is kept unmodified;
\* a descriptor lacking it is replaced by the default mainnet network when its
\* version tag is Mainnet and by the default testnet network when it is
\* Testnet; the transaction is built for the resolved network.
C10_NetworkResolution ==
    gpc \notin {"start", "off"} =>
        /\ (txDataIn.network.present /\ txDataIn.network.hasFeeEstimate)
              => txData.network = txDataIn.network
        /\ (txDataIn.network.present /\ ~txDataIn.network.hasFeeEstimate
               /\ txDataIn.network.version = 0)
              => /\ txData.network.name = "StacksMainnet"
                 /\ txData.network.version = 0
                 /\ txData.network.hasFeeEstimate
        /\ (txDataIn.network.present /\ ~txDataIn.network.hasFeeEstimate
               /\ txDataIn.network.version = 128)
              => /\ txData.network.name = "StacksTestnet"
                 /\ txData.network.version = 128
                 /\ txData.network.hasFeeEstimate
        /\ gresult.kind = "return" => gresult.tx.network = txData.network

\* a testnet descriptor without the capability, replaced by the default
C10_Witness ==
    /\ gpc = "done"
    /\ gresult.kind = "return"
    /\ txDataIn.network.present
    /\ ~txDataIn.network.hasFeeEstimate
    /\ txDataIn.network.version = 128
    /\ gresult.tx.network.name = "StacksTestnet"

(***************************************************************************)
(* Properties of useHandleSubmitTransaction                                *)
(***************************************************************************)
\* positions of the log entries with a given op
Positions(log, op) == {k \in 1..Len(log) : log[k].op = op}
Settled == {"accepted", "rejected", "threw"}

\* setIsIdle and doChangeScreen(HOME) were called, after setIsLoading and
\* after the broadcast (if any) had settled
CleanupOrdered(log) ==
    \E l \in Positions(log, "setIsLoading") :
    \E d \in Positions(log, "setIsIdle") :
    \E h \in Positions(log, "doChangeScreen") :
        /\ log[h].arg = "HOME"
        /\ l < d /\ l < h
        /\ \A b \in Positions(log, "broadcastTransaction") :
              \E r \in 1..Len(log) :
                 log[r].op \in Settled /\ b < r /\ r < d /\ r < h

\* C6: once the submit callback is invoked, on every outcome it eventually
\* completes; when it completes the loading flag is idle and the screen is
\* HOME, and setIsIdle and doChangeScreen(HOME) were called after
\* setIsLoading and after the broadcast attempt (if any) settled.
C6_AlwaysCleansUp ==
    /\ \A i \in Invocations : (spc[i] \notin {"idle", "off"}) ~> (spc[i] = "done")
    /\ [](\A i \in Invocations : spc[i] = "done" => CleanupOrdered(slog[i]))
    /\ [][\A i \in Invocations :
            (spc[i] # "done" /\ spc'[i] = "done") => (~isLoading' /\ screen' = "HOME")]_vars

\* all invocations completed, one after a success, one after a thrown broadcast
C6_Witness ==
    /\ \A i \in Invocations : spc[i] = "done"
    /\ \E i \in Invocations :
          Positions(slog[i], "toast.success") # {} /\ CleanupOrdered(slog[i])
    /\ \E i \in Invocations :
          Positions(slog[i], "threw") # {} /\ CleanupOrdered(slog[i])

\* C7: in every execution of the callback doSetLatestNonce is called at most
\* once, and only right after the broadcast of that transaction returned an
\* accepted response; never when the transaction is absent, the broadcast is
\* rejected or it throws. The tracked nonce changes only to the nonce of a
\* transaction whose broadcast was accepted.
C7_NonceOnlyAfterAccepted ==
    /\ \A i \in Invocations :
          LET log == slog[i]
              calls == Positions(log, "doSetLatestNonce")
          IN /\ Cardinality(calls) <= 1
             /\ \A k \in calls :
                   /\ k > 2
                   /\ log[k - 1].op = "accepted"
                   /\ log[k - 2].op = "broadcastTransaction"
             /\ (transaction[i] = NullTx \/ Positions(log, "rejected") # {}
                    \/ Positions(log, "threw") # {}) => calls = {}
    /\ latestNonce # 0 =>
          \E i \in Invocations :
             /\ Positions(slog[i], "accepted") # {}
             /\ transaction[i] # NullTx
             /\ latestNonce = transaction[i].nonce.bn

\* one broadcast was accepted and updated the nonce, another was rejected
C7_Witness ==
    /\ latestNonce # 0
    /\ \E i \in Invocations : Positions(slog[i], "doSetLatestNonce") # {}
    /\ \E i \in Invocations : Positions(slog[i], "rejected") # {} /\ spc[i] = "done"

\* the fixed message of each rejection reason
MessageTable(reason) ==
    IF reason = "ConflictingNonceInMempool" THEN "Nonce conflict, try again soon."
    ELSE IF reason = "BadNonce" THEN "Incorrect nonce."
    ELSE IF reason = "NotEnoughFunds" THEN "Not enough funds."
    ELSE IF reason = "FeeTooLow" THEN "Fee is too low."
    ELSE "Something went wrong"

\* C8: a rejected broadcast is followed by exactly one error toast carrying the
\* fixed message of its reason, a thrown broadcast by the error toast
\* "Something went wrong".
C8_RejectionMessages ==
    \A i \in Invocations :
        LET log == slog[i]
        IN /\ \A k \in Positions(log, "rejected") :
                /\ k < Len(log)
                /\ log[k + 1] = Call("toast.error", MessageTable(log[k].arg))
                /\ Positions(log, "toast.error") = {k + 1}
                /\ Positions(log, "toast.success") = {}
           /\ \A k \in Positions(log, "threw") :
                /\ k < Len(log)
                /\ log[k + 1] = Call("toast.error", "Something went wrong")
                /\ Positions(log, "toast.error") = {k + 1}
                /\ Positions(log, "toast.success") = {}

\* a BadNonce rejection shown as "Incorrect nonce."
C8_Witness ==
    \E i \in Invocations :
        \E k \in Positions(slog[i], "rejected") :
            /\ slog[i][k].arg = "BadNonce"
            /\ slog[i][k + 1] = Call("toast.error", "Incorrect nonce.")

(***************************************************************************)
(* Properties of finishTransaction                                         *)
(***************************************************************************)
\* a string with every quote character taken out
RECURSIVE WithoutQuotes(_)
WithoutQuotes(str) ==
    IF str = <<>> THEN <<>>
    ELSE IF str[1] = "\"" THEN WithoutQuotes(Tail(str))
    ELSE <<str[1]>> \o WithoutQuotes(Tail(str))

\* C11: on an accepted response finishTransaction returns txId = "0x" followed
\* by the returned id with its quoting stripped, no quote character left, and
\* txRaw = "0x" followed by the hex of the bytes that were transmitted.
C11_Original ==
    (bpc = "done" /\ response.ok) =>
        /\ bresult.kind = "return"
        /\ bresult.txId = <<"0", "x">> \o WithoutQuotes(response.json)
        /\ \A k \in 1..Len(bresult.txId) : bresult.txId[k] # "\""
        /\ Len(sent) = 1
        /\ bresult.txRaw = <<"0", "x">> \o toStringHex(sent[1])

\* the message of a rejection whose body carries an error
ComposedMessage ==
    <<response.error.text, " - ",
      IF response.reason.defined THEN response.reason.text ELSE "undefined">>

\* the rejection body carries a (non-empty) error field
CarriesError == response.error.defined /\ response.error.text # ""

\* C12: on a rejection finishTransaction never returns a result: with an error
\* field in the body it logs error and reason and throws "<error> - <reason>",
\* without one it throws "Unable to submit transaction".
C12_RejectionThrows ==
    (bpc = "done" /\ ~response.ok) =>
        /\ bresult.kind = "throw"
        /\ bresult.txId = <<>> /\ bresult.txRaw = <<>>
        /\ CarriesError =>
              /\ bresult.message = ComposedMessage
              /\ errorLog = <<ComposedMessage[1], ComposedMessage[3]>>
        /\ ~CarriesError =>
              /\ bresult.message = <<"Unable to submit transaction">>
              /\ errorLog = <<>>

\* a structured rejection surfaced as "transaction rejected - BadNonce"
C12_Witness ==
    /\ bpc = "done"
    /\ ~response.ok
    /\ bresult.kind = "throw"
    /\ bresult.message = <<"transaction rejected", " - ", "BadNonce">>
    /\ errorLog = <<"transaction rejected", "BadNonce">>

\* C13 (as amended): the transaction is serialized exactly once per
\* broadcast; that form is the bytes transmitted and, on acceptance, the
\* 0x-prefixed hex handed back; on both rejection paths the call throws and
\* hands no hex back.
C13_SerializedOnce ==
    /\ serializeCalls <= 1
    /\ bpc \in {"awaitBroadcast", "done"} =>
          /\ serializeCalls = 1
          /\ sent = <<serialize(btx)>>
    /\ (bpc = "done" /\ response.ok) =>
          bresult.txRaw = <<"0", "x">> \o toStringHex(sent[1])
    /\ (bpc = "done" /\ ~response.ok) =>
          /\ bresult.kind = "throw"
          /\ bresult.txRaw = <<>>

\* a testnet transfer with nonce 2 accepted: its bytes 80 00 02 handed back
C13_Witness ==
    /\ bpc = "done"
    /\ response.ok
    /\ sent = <<<<128, 0, 2>>>>
    /\ serializeCalls = 1
    /\ bresult.txRaw = <<"0", "x", "8", "0", "0", "0", "0", "2">>

\* C13 as stated: the hex of the serialized form is handed back on every
\* outcome path.
C13_Original ==
    bpc = "done" =>
        /\ serializeCalls = 1
        /\ sent = <<serialize(btx)>>
        /\ bresult.txRaw = <<"0", "x">> \o toStringHex(sent[1])

(***************************************************************************)
(* Properties of the broadcast attempts                                    *)
(***************************************************************************)
\* the broadcasts invocation i of the submit callback has issued
Broadcasts(i) == Cardinality(Positions(slog[i], "broadcastTransaction"))

\* C14: each call of finishTransaction issues exactly one submission, each
\* invocation of the submit callback at most one broadcast: exactly one with
\* a transaction, none without; nothing is sent again after a rejection or a
\* thrown error.
C14_SingleAttempt ==
    /\ Len(sent) <= 1
    /\ bpc \in {"awaitBroadcast", "done"} => Len(sent) = 1
    /\ \A i \in Invocations :
          /\ Broadcasts(i) <= 1
          /\ spc[i] # "idle" =>
                Broadcasts(i) = IF transaction[i] = NullTx THEN 0 ELSE 1

\* finishTransaction was rejected, one callback ended after a thrown broadcast,
\* another after a rejection or without a transaction
C14_Witness ==
    /\ bpc = "done" /\ bresult.kind = "throw" /\ Len(sent) = 1
    /\ \A i \in Invocations : spc[i] = "done"
    /\ \E i \in Invocations : Positions(slog[i], "threw") # {} /\ Broadcasts(i) = 1
    /\ \E i \in Invocations : Positions(slog[i], "threw") = {}

\* C15: in any interleaving of invocations of the submit callback that share
\* a loading key, the loading flag is never idle while a broadcast started by
\* one of them is still awaiting its response.
C15_Original ==
    (\E i \in Invocations : spc[i] = "awaitBroadcast") => isLoading

(***************************************************************************)
(* Properties of getPostConditions                                         *)
(***************************************************************************)
\* C16: after normalization every structured post-condition with an amount
\* field holds the amount as an arbitrary-precision integer, for every amount
\* including zero; hex strings are replaced by their deserialized form;
\* entries without amount are unchanged; length and order are kept.
C16_Original ==
    (npc = "done" /\ postConditions.defined) =>
        /\ Len(mapped) = Len(postConditions.entries)
        /\ \A k \in 1..Len(mapped) :
              LET in == postConditions.entries[k]
                  out == mapped[k]
              IN /\ out.kind = "structured"
                 /\ in.kind = "hex" => out = deserializePostCondition(in.hex)
                 /\ (in.kind = "structured" /\ in.hasAmount) =>
                       /\ out.amount.type = "BN"
                       /\ out.principal = in.principal
                 /\ (in.kind = "structured" /\ ~in.hasAmount) => out = in

(***************************************************************************)
(* Properties of the Verifier followed by the Builder                      *)
(***************************************************************************)
\* C17: for every payload verifyTxRequest accepts and generateTransaction is
\* then given, the version the Verifier resolved for address derivation is
\* the version of the network the Builder builds the transaction for.
C17_Original ==
    /\ gpc \in {"switch", "check", "done"} => txVersion = txData.network.version
    /\ gresult.kind = "return" => txVersion = gresult.tx.network.version

(***************************************************************************)
(* Further properties of the submit callback and of the Builder            *)
(***************************************************************************)
\* the toasts invocation i has shown
Toasts(i) ==
    Positions(slog[i], "toast.success") \cup Positions(slog[i], "toast.error")

\* the calls of a fully successful submission, in order
SuccessfulRun ==
    <<"setIsLoading", "broadcastTransaction", "accepted", "doSetLatestNonce",
      "revalidate", "toast.success", "onClose", "setIsIdle", "doChangeScreen">>

\* C18: every execution of the callback shows at most one toast: none (and no
\* broadcast, nonce update or revalidation) without a transaction, exactly one
\* with one; the success toast "Transaction submitted!" only after an accepted
\* broadcast, the nonce update and the revalidation completed in that order,
\* an error toast in every other case.
C18_OneToast ==
    \A i \in Invocations :
        LET log == slog[i]
        IN /\ Cardinality(Toasts(i)) <= 1
           /\ \A k \in Positions(log, "toast.success") :
                 /\ log[k].arg = "Transaction submitted!"
                 /\ \E a, n, r \in 1..Len(log) :
                       /\ a < n /\ n < r /\ r < k
                       /\ log[a].op = "accepted"
                       /\ log[n].op = "doSetLatestNonce"
                       /\ log[r].op = "revalidate"
                 /\ spc[i] = "done"
           /\ (spc[i] = "done" /\ transaction[i] = NullTx) =>
                 /\ Toasts(i) = {}
                 /\ Positions(log, "broadcastTransaction") = {}
                 /\ Positions(log, "doSetLatestNonce") = {}
                 /\ Positions(log, "revalidate") = {}
           /\ (spc[i] = "done" /\ transaction[i] # NullTx) =>
                 /\ Cardinality(Toasts(i)) = 1
                 /\ IF [k \in 1..Len(log) |-> log[k].op] = SuccessfulRun
                    THEN Positions(log, "toast.success") # {}
                    ELSE Positions(log, "toast.error") # {}

\* one invocation ended with the success toast, one after a failed revalidation
C18_Witness ==
    /\ \A i \in Invocations : spc[i] = "done"
    /\ \E i \in Invocations : Positions(slog[i], "toast.success") # {}
    /\ \E i \in Invocations :
          /\ Positions(slog[i], "revalidate") # {}
          /\ Positions(slog[i], "toast.error") # {}

\* C19: in all three construction paths an explicit nonce, 0 included, reaches
\* construction as an arbitrary-precision integer of the same value and an
\* omitted nonce reaches it as absent; the Builder substitutes no nonce.
C19_NoncePassedThrough ==
    (gpc \in {"check", "done"} /\ tx # NullTx) =>
        /\ nonce.defined => (tx.nonce.defined /\ tx.nonce.bn = nonce.value)
        /\ ~nonce.defined => ~tx.nonce.defined
        /\ gresult.kind = "return" => gresult.tx.nonce = tx.nonce

\* a contract deploy built with the explicit nonce 0
C19_Witness ==
    /\ gpc = "done"
    /\ gresult.kind = "return"
    /\ gresult.tx.made = "makeContractDeploy"
    /\ nonce.defined /\ nonce.value = 0
    /\ gresult.tx.nonce.defined /\ gresult.tx.nonce.bn = 0

====
